---- MODULE Spec2Model ----
(***************************************************************************)
(* Model of shiny/render/_coordmap.py: the coordinate map of a rendered    *)
(* matplotlib figure (get_coordmap, get_coordmap_panel) and its enrichment *)
(* with the information of a plotnine plot (get_coordmap_plotnine,         *)
(* _get_mappings, _is_log_trans, _is_reverse_trans).                       *)
(*                                                                         *)
(* Python values.  None is the empty tuple; a number or a string that may  *)
(* also be None is held as a one-element tuple (Just).  A dict is a        *)
(* function from its keys, so an optional key is a key outside DOMAIN.     *)
(* A numpy integer of the layout table is [ty |-> "int64", val |-> n] and  *)
(* float() turns it into [ty |-> "float", val |-> n].                      *)
(* Objects that are mutated through a reference (the plot specification)   *)
(* live in a heap: a function from addresses to objects.                   *)
(***************************************************************************)
EXTENDS Integers, Sequences, FiniteSets, TLC

VARIABLES fig, p, op, result

vars == <<fig, p, op, result>>

\* Largest number of axes (panels) of a figure.
MaxPanels == 2

None == <<>>

Just(v) == <<v>>

-----------------------------------------------------------------------------
(* The rendering engine (matplotlib), as far as the module reads it.       *)

\* Integer logarithm: the exponent e with base^e = v, for v a power of base.
RECURSIVE LogOf(_, _)
LogOf(base, v) == IF v < base THEN 0 ELSE 1 + LogOf(base, v \div base)

\* axis._scale._transform.transform(v): the forward transform of the scale.
scale_transform(scale, v) ==
    IF scale.name = "log" THEN LogOf(scale.base, v) ELSE v

\* fig.get_size_inches() * fig.get_dpi()
dims_of(f) ==
    [width  |-> f.size_inches[1] * f.dpi,
     height |-> f.size_inches[2] * f.dpi]

\* One coordinate of axes.transData: scale transform, then the affine map of
\* the limits onto the pixel extent [p0, p1] of the axes (bottom-left origin).
data_to_pixel(scale, lim, p0, p1, v) ==
    p0 + ((scale_transform(scale, v) - scale_transform(scale, lim[1])) * (p1 - p0))
            \div (scale_transform(scale, lim[2]) - scale_transform(scale, lim[1]))

\* axes.transData.transform([x0, y0, x1, y1]): the flat array is read as two
\* points and the result is flattened again.
transData_transform(f, axes, vals) ==
    LET px(v) == data_to_pixel(axes.xaxis._scale, axes.xlim,
                               axes.position.x0 * f.dpi, axes.position.x1 * f.dpi, v)
        py(v) == data_to_pixel(axes.yaxis._scale, axes.ylim,
                               axes.position.y0 * f.dpi, axes.position.y1 * f.dpi, v)
    IN  <<px(vals[1]), py(vals[2]), px(vals[3]), py(vals[4])>>

-----------------------------------------------------------------------------
(* get_coordmap_panel and get_coordmap                                     *)

\* The limits of the axes: the data coordinates of the plotting area.
raw_domain(axes) ==
    [left   |-> axes.xlim[1], right |-> axes.xlim[2],
     bottom |-> axes.ylim[1], top   |-> axes.ylim[2]]

\* pixel_range that keeps the origin of transData in the bottom left.
pixel_range_bottom_origin(f, axes, domain, height) ==
    LET range_ar == transData_transform(f, axes,
                        <<domain.left, domain.bottom, domain.right, domain.top>>)
    IN  [left   |-> range_ar[1],
         right  |-> range_ar[3],
         bottom |-> range_ar[2],
         top    |-> range_ar[4]]

\* The pixel coordinates of the plotting area, origin in the upper left.
pixel_range(f, axes, domain, height) ==
    LET range_ar == transData_transform(f, axes,
                        <<domain.left, domain.bottom, domain.right, domain.top>>)
    IN  [left   |-> range_ar[1],
         right  |-> range_ar[3],
         bottom |-> height - range_ar[2],
         top    |-> height - range_ar[4]]

\* log["x"], log["y"]: the base of a log axis, else None.
axis_log(axes) ==
    [x |-> IF axes.xaxis._scale.name = "log" THEN Just(axes.xaxis._scale.base) ELSE None,
     y |-> IF axes.yaxis._scale.name = "log" THEN Just(axes.yaxis._scale.base) ELSE None]

\* axis_log_domain that sends the y edges through the transform of the x axis.
axis_log_domain_x_for_y(axes, domain) ==
    LET d1 == IF axes.xaxis._scale.name = "log"
              THEN [domain EXCEPT
                      !.left  = scale_transform(axes.xaxis._scale, domain.left),
                      !.right = scale_transform(axes.xaxis._scale, domain.right)]
              ELSE domain
    IN  IF axes.yaxis._scale.name = "log"
        THEN [d1 EXCEPT
                !.top    = scale_transform(axes.xaxis._scale, d1.top),
                !.bottom = scale_transform(axes.xaxis._scale, d1.bottom)]
        ELSE d1

\* The domain after the edges of each log axis went through its transform.
axis_log_domain(axes, domain) ==
    LET d1 == IF axes.xaxis._scale.name = "log"
              THEN [domain EXCEPT
                      !.left  = scale_transform(axes.xaxis._scale, domain.left),
                      !.right = scale_transform(axes.xaxis._scale, domain.right)]
              ELSE domain
    IN  IF axes.yaxis._scale.name = "log"
        THEN [d1 EXCEPT
                !.top    = scale_transform(axes.yaxis._scale, d1.top),
                !.bottom = scale_transform(axes.yaxis._scale, d1.bottom)]
        ELSE d1

get_coordmap_panel(f, axes, panel_num, height) ==
    LET domain == raw_domain(axes)
    IN  [panel   |-> panel_num,
         row     |-> axes.spspec.rowspan_start + 1,
         col     |-> axes.spspec.colspan_start + 1,
         domain  |-> axis_log_domain(axes, domain),
         range   |-> pixel_range(f, axes, domain, height),
         log     |-> axis_log(axes),
         mapping |-> [x |-> None, y |-> None]]

\* get_coordmap that numbers the panels from 0, as enumerate does.
get_coordmap_zero_based(f) ==
    LET dims == dims_of(f)
    IN  [panels |-> [i \in 1..Len(f.axes) |->
                        get_coordmap_panel(f, f.axes[i], i - 1, dims.height)],
         dims   |-> dims]

\* get_coordmap that returns None for a figure without axes.
get_coordmap_none_if_empty(f) ==
    LET dims == dims_of(f)
    IN  IF f.axes = <<>>
        THEN None
        ELSE [panels |-> [i \in 1..Len(f.axes) |->
                            get_coordmap_panel(f, f.axes[i], i, dims.height)],
              dims   |-> dims]

get_coordmap(f) ==
    LET dims == dims_of(f)
    IN  [panels |-> [i \in 1..Len(f.axes) |->
                        get_coordmap_panel(f, f.axes[i], i, dims.height)],
         dims   |-> dims]

-----------------------------------------------------------------------------
(* Figures                                                                 *)

\* A linear scale has no base attribute.
XScales == {[name |-> "linear"], [name |-> "log", base |-> 10]}

YScales == {[name |-> "linear"], [name |-> "log", base |-> 2]}

\* Axis limits: any pair on a linear axis, powers of the base on a log axis.
LimOf(scale) ==
    IF scale.name = "log" THEN <<scale.base, scale.base * scale.base * scale.base>>
                          ELSE <<-2, 3>>

\* The k-th axes of a two-column subplot grid on a 6in x 4in figure: its
\* grid cell and the extent of its plotting area in inches from bottom-left.
AxesAt(k, xs, ys) ==
    LET r == (k - 1) \div 2
        c == (k - 1) % 2
    IN  [xlim     |-> LimOf(xs),
         ylim     |-> LimOf(ys),
         xaxis    |-> [_scale |-> xs],
         yaxis    |-> [_scale |-> ys],
         position |-> [x0 |-> 3 * c + 1, x1 |-> 3 * c + 3,
                       y0 |-> 2 * (1 - r) + 1, y1 |-> 2 * (1 - r) + 2],
         spspec   |-> [rowspan_start |-> r, colspan_start |-> c]]

Figures ==
    {[size_inches |-> <<6, 4>>, dpi |-> d,
      axes |-> [k \in 1..n |-> AxesAt(k, xs[k], ys[k])]] :
        d \in {20}, n \in 0..MaxPanels,
        xs \in [1..MaxPanels -> XScales], ys \in [1..MaxPanels -> YScales]}

-----------------------------------------------------------------------------
(* The declarative layer (plotnine), as far as the module reads it.        *)

\* The characters of the type names of transform objects.
Chars(name) ==
    CASE name = "identity_trans" ->
            <<"i","d","e","n","t","i","t","y","_","t","r","a","n","s">>
      [] name = "reverse_trans" ->
            <<"r","e","v","e","r","s","e","_","t","r","a","n","s">>
      [] name = "symlog_trans" ->
            <<"s","y","m","l","o","g","_","t","r","a","n","s">>
      [] name = "log2_trans" ->
            <<"l","o","g","2","_","t","r","a","n","s">>
      [] name = "log5_trans" ->
            <<"l","o","g","5","_","t","r","a","n","s">>
      [] name = "log10_trans" ->
            <<"l","o","g","1","0","_","t","r","a","n","s">>

identity_trans == [type |-> "identity_trans"]

reverse_trans == [type |-> "reverse_trans"]

symlog_trans == [type |-> "symlog_trans"]

log2_trans == [type |-> "log2_trans", base |-> 2]

log5_trans == [type |-> "log5_trans", base |-> 5]

log10_trans == [type |-> "log10_trans", base |-> 10]

\* re.fullmatch("log.*_trans", type(trans).__name__)
_is_log_trans(trans) ==
    LET s == Chars(trans.type)
        n == Len(s)
    IN  /\ n >= 9
        /\ SubSeq(s, 1, 3) = <<"l","o","g">>
        /\ SubSeq(s, n - 5, n) = <<"_","t","r","a","n","s">>

\* type(trans).__name__ == "reverse_trans"
_is_reverse_trans(trans) == trans.type = "reverse_trans"

\* float(v) of a numpy integer
float(v) == [ty |-> "float", val |-> v.val]

int64(n) == [ty |-> "int64", val |-> n]

\* "key in d" for a dict d
HasKey(d, key) == key \in DOMAIN d

\* d[key] = v for a dict d, adding the key when it is new
SetItem(d, key, v) == [k \in DOMAIN d \cup {key} |-> IF k = key THEN v ELSE d[k]]

\* deepcopy that hands back the object itself.
deepcopy_alias(heap, a) == [heap |-> heap, ref |-> a]

\* copy.deepcopy of the object at address a: a new object with equal fields.
deepcopy(heap, a) ==
    LET new == Cardinality(DOMAIN heap) + 1
    IN  [heap |-> [b \in DOMAIN heap \cup {new} |-> IF b = new THEN heap[a] ELSE heap[b]],
         ref  |-> new]

\* p._build() on the object at address a: the layout is set up from the
\* plot's coordinates, facet, scales and the panels its data gives.
_build(heap, a) ==
    LET o == heap[a]
    IN  [heap EXCEPT ![a] =
            [o EXCEPT !.layout = [layout         |-> o.facet_layout,
                                  panel_scales_x |-> [i \in DOMAIN o.scales_x |->
                                                        [_trans |-> o.scales_x[i]]],
                                  panel_scales_y |-> [i \in DOMAIN o.scales_y |->
                                                        [_trans |-> o.scales_y[i]]],
                                  coord          |-> o.coordinates,
                                  facet          |-> o.facet]]]

\* xy_mappings that ignores coord_flip.
xy_mappings_no_flip(pl) ==
    [x |-> IF HasKey(pl.mapping, "x") THEN Just(pl.mapping["x"]) ELSE None,
     y |-> IF HasKey(pl.mapping, "y") THEN Just(pl.mapping["y"]) ELSE None]

\* mapping["x"], mapping["y"]: the variables of the plot's mapping, exchanged
\* under coord_flip.
xy_mappings(pl) ==
    LET m == [x |-> IF HasKey(pl.mapping, "x") THEN Just(pl.mapping["x"]) ELSE None,
              y |-> IF HasKey(pl.mapping, "y") THEN Just(pl.mapping["y"]) ELSE None]
    IN  IF pl.layout.coord.type = "coord_flip" THEN [x |-> m.y, y |-> m.x] ELSE m

\* The names of the panel variables, added to the mapping.
facet_mappings(mapping, facet) ==
    IF facet.type = "facet_grid"
    THEN LET hasCols == Len(facet.cols) > 0
             n  == IF hasCols THEN 2 ELSE 1
             m1 == IF hasCols THEN SetItem(mapping, "panelvar1", facet.cols[1])
                              ELSE mapping
         IN  IF Len(facet.rows) > 0
             THEN SetItem(m1, IF n = 1 THEN "panelvar1" ELSE "panelvar2", facet.rows[1])
             ELSE m1
    ELSE IF facet.type = "facet_wrap"
    THEN SetItem(mapping, "panelvar1", facet.vars[1])
    ELSE mapping

_get_mappings(pl) == facet_mappings(xy_mappings(pl), pl.layout.facet)

\* layout_row that takes the row at the panel's position in the table.
layout_row_by_position(pl, panel_num) == pl.layout.layout[panel_num]

\* p.layout.layout.loc[p.layout.layout["PANEL"] == panel_num], then .iloc[0]
layout_row(pl, panel_num) ==
    LET tbl == pl.layout.layout
        idx == {i \in DOMAIN tbl : tbl[i]["PANEL"] = panel_num}
    IN  tbl[CHOOSE i \in idx : \A j \in idx : i <= j]

\* The values of the panel variables in the panel's row of the layout table.
with_panel_vars(panel, row) ==
    LET mapping == panel["mapping"]
        pv1 == IF HasKey(mapping, "panelvar1")
               THEN SetItem(panel, "panel_vars",
                            [panelvar1 |-> float(row[mapping["panelvar1"]])])
               ELSE panel
    IN  IF HasKey(mapping, "panelvar2")
        THEN SetItem(pv1, "panel_vars",
                     SetItem(pv1["panel_vars"], "panelvar2",
                             float(row[mapping["panelvar2"]])))
        ELSE pv1

\* A log transform of a scale sets the base of its axis.
scale_log(log, xscale, yscale) ==
    [x |-> IF _is_log_trans(xscale._trans) THEN Just(xscale._trans.base) ELSE log.x,
     y |-> IF _is_log_trans(yscale._trans) THEN Just(yscale._trans.base) ELSE log.y]

\* reverse_domain that negates the x edges for a reversed y scale.
reverse_domain_x_for_y(domain, xscale, yscale) ==
    LET d1 == IF _is_reverse_trans(xscale._trans)
              THEN [domain EXCEPT !.left = -domain.left, !.right = -domain.right]
              ELSE domain
    IN  IF _is_reverse_trans(yscale._trans)
        THEN [d1 EXCEPT !.left = -d1.left, !.right = -d1.right]
        ELSE d1

\* A reverse transform of a scale negates the edges of its axis.
reverse_domain(domain, xscale, yscale) ==
    LET d1 == IF _is_reverse_trans(xscale._trans)
              THEN [domain EXCEPT !.left = -domain.left, !.right = -domain.right]
              ELSE domain
    IN  IF _is_reverse_trans(yscale._trans)
        THEN [d1 EXCEPT !.top = -d1.top, !.bottom = -d1.bottom]
        ELSE d1

\* coord_log that leaves a base that is already set.
coord_log_if_unset(log, coord) ==
    [x |-> IF log.x = None /\ HasKey(coord, "trans_x") /\ _is_log_trans(coord.trans_x)
           THEN Just(coord.trans_x.base) ELSE log.x,
     y |-> IF log.y = None /\ HasKey(coord, "trans_y") /\ _is_log_trans(coord.trans_y)
           THEN Just(coord.trans_y.base) ELSE log.y]

\* A log transform of the coordinate system sets the base of its axis.
coord_log(log, coord) ==
    [x |-> IF HasKey(coord, "trans_x") /\ _is_log_trans(coord.trans_x)
           THEN Just(coord.trans_x.base) ELSE log.x,
     y |-> IF HasKey(coord, "trans_y") /\ _is_log_trans(coord.trans_y)
           THEN Just(coord.trans_y.base) ELSE log.y]

\* enrich_panel that also takes the logarithm of the x edges under a log scale.
enrich_panel_log_domain(pl, mappings, panel0) ==
    LET row    == layout_row(pl, panel0.panel)
        panel1 == with_panel_vars(SetItem(panel0, "mapping", mappings), row)
        xscale == pl.layout.panel_scales_x[row["SCALE_X"]]
        yscale == pl.layout.panel_scales_y[row["SCALE_Y"]]
        log    == coord_log(scale_log(panel1.log, xscale, yscale), pl.layout.coord)
        d0     == reverse_domain(panel1.domain, xscale, yscale)
        domain == IF _is_log_trans(xscale._trans)
                  THEN [d0 EXCEPT !.left  = LogOf(xscale._trans.base, d0.left),
                                  !.right = LogOf(xscale._trans.base, d0.right)]
                  ELSE d0
    IN  SetItem(SetItem(panel1, "log", log), "domain", domain)

\* The body of the loop of get_coordmap_plotnine for one panel.
enrich_panel(pl, mappings, panel0) ==
    LET row    == layout_row(pl, panel0.panel)
        panel1 == with_panel_vars(SetItem(panel0, "mapping", mappings), row)
        xscale == pl.layout.panel_scales_x[row["SCALE_X"]]
        yscale == pl.layout.panel_scales_y[row["SCALE_Y"]]
        log    == coord_log(scale_log(panel1.log, xscale, yscale), pl.layout.coord)
        domain == reverse_domain(panel1.domain, xscale, yscale)
    IN  SetItem(SetItem(panel1, "log", log), "domain", domain)

\* get_coordmap_plotnine(p, fig), with the caller's plot at address 1 of the
\* heap: the value returned and the heap when it returns.
get_coordmap_plotnine(heap, f) ==
    LET coordmap == get_coordmap(f)
    IN  IF coordmap = None
        THEN [ret |-> None, heap |-> heap]
        ELSE LET c        == deepcopy(heap, 1)
                 h        == _build(c.heap, c.ref)
                 pl       == h[c.ref]
                 mappings == _get_mappings(pl)
             IN  [ret  |-> [coordmap EXCEPT !.panels =
                              [i \in 1..Len(coordmap.panels) |->
                                  enrich_panel(pl, mappings, coordmap.panels[i])]],
                  heap |-> h]

-----------------------------------------------------------------------------
(* Plot specifications                                                     *)

Mappings == {[x |-> "wt", y |-> "mpg"], [y |-> "mpg"], <<>>}

Coords ==
    {[type |-> "coord_cartesian"], [type |-> "coord_flip"],
     [type |-> "coord_trans", trans_x |-> log5_trans, trans_y |-> identity_trans],
     [type |-> "coord_trans", trans_x |-> identity_trans, trans_y |-> log5_trans]}

Facets ==
    {[type |-> "facet_null"],
     [type |-> "facet_grid", cols |-> <<"cyl">>, rows |-> <<"am">>],
     [type |-> "facet_grid", cols |-> <<>>, rows |-> <<"am">>],
     [type |-> "facet_grid", cols |-> <<"cyl">>, rows |-> <<>>],
     [type |-> "facet_wrap", vars |-> <<"cyl", "am">>]}

\* The scales of the x and of the y axis: one shared scale, or free scales.
ScalesX ==
    {<<identity_trans>>, <<log2_trans>>, <<reverse_trans>>,
     <<identity_trans, reverse_trans>>, <<log2_trans, identity_trans>>}

ScalesY ==
    {<<symlog_trans>>, <<log10_trans>>, <<reverse_trans>>,
     <<reverse_trans, symlog_trans>>, <<symlog_trans, log10_trans>>}

\* The row of the layout table for panel k: its scales and the values of the
\* facet variables (cyl 4, 6, 8, ... and am 1, 0, 1, ...).
LayoutRow(k, nx, ny) ==
    [PANEL |-> k, SCALE_X |-> (k % nx) + 1, SCALE_Y |-> (k % ny) + 1,
     cyl |-> int64(2 * k + 2), am |-> int64(k % 2)]

\* The layout table of n panels, its rows in increasing or decreasing order
\* of PANEL.
LayoutTable(n, nx, ny, rev) ==
    [i \in 1..n |-> LayoutRow(IF rev THEN n + 1 - i ELSE i, nx, ny)]

PlotOf(n, m, c, fc, sx, sy, rev) ==
    [mapping |-> m, coordinates |-> c, facet |-> fc, scales_x |-> sx, scales_y |-> sy,
     facet_layout |-> LayoutTable(n, Len(sx), Len(sy), rev),
     layout |-> None]

\* Plots of n panels that have not been built: every mapping, coordinate
\* system and facet with the default scales, and every coordinate system and
\* pair of scales on a faceted grid.
PlotSpecs(n) ==
    {PlotOf(n, m, c, fc, <<identity_trans>>, <<symlog_trans>>, rev) :
        m \in Mappings, c \in Coords, fc \in Facets, rev \in BOOLEAN}
    \cup
    {PlotOf(n, [x |-> "wt", y |-> "mpg"], c,
            [type |-> "facet_grid", cols |-> <<"cyl">>, rows |-> <<"am">>], sx, sy, rev) :
        c \in Coords, sx \in ScalesX, sy \in ScalesY, rev \in BOOLEAN}

\* Plots that have been built already.
Built(n) ==
    {_build(<<PlotOf(n, m, c, fc, <<identity_trans>>, <<symlog_trans>>, rev)>>, 1)[1] :
        m \in Mappings, c \in Coords, fc \in Facets, rev \in BOOLEAN}

-----------------------------------------------------------------------------
Init ==
    /\ fig \in Figures
    /\ p \in PlotSpecs(Len(fig.axes)) \cup Built(Len(fig.axes))
    /\ op = "init"
    /\ result = None

Extract ==
    /\ op' = "extract"
    /\ result' = get_coordmap(fig)
    /\ UNCHANGED <<fig, p>>

Enrich ==
    LET r == get_coordmap_plotnine(<<p>>, fig)
    IN  /\ op' = "enrich"
        /\ result' = r.ret
        /\ p' = r.heap[1]
        /\ fig' = fig

Next == Extract \/ Enrich

Spec == Init /\ [][Next]_vars

-----------------------------------------------------------------------------
(* Properties                                                              *)

Height == fig.size_inches[2] * fig.dpi

\* The map get_coordmap gives for the figure.
Extracted == get_coordmap(fig)

\* The row of the plot's layout table whose PANEL is k.
RowOfPanel(k) ==
    LET tbl == p.facet_layout
    IN  tbl[CHOOSE i \in DOMAIN tbl : tbl[i]["PANEL"] = k]

\* The transforms of the scales that the layout table gives panel k.
XTransOf(k) == p.scales_x[RowOfPanel(k)["SCALE_X"]]

YTransOf(k) == p.scales_y[RowOfPanel(k)["SCALE_Y"]]

\* A log transform is a transform that has a base.
HasBase(trans) == "base" \in DOMAIN trans

\* The base the rendering engine reports for an axis, None when not log.
EngineLog(axis) == IF axis._scale.name = "log" THEN Just(axis._scale.base) ELSE None

\* C1: get_coordmap of a figure with N axes returns N panels; the k-th has
\* panel number k and is built from the k-th axes (its grid cell and the
\* pixel position of its left edge are those of the k-th axes).
C1_PanelsNumbered ==
    op = "extract" =>
        /\ Len(result.panels) = Len(fig.axes)
        /\ \A k \in 1..Len(fig.axes) :
              /\ result.panels[k].panel = k
              /\ result.panels[k].row = fig.axes[k].spspec.rowspan_start + 1
              /\ result.panels[k].col = fig.axes[k].spspec.colspan_start + 1
              /\ result.panels[k].range.left = fig.axes[k].position.x0 * fig.dpi

C1_Witness ==
    /\ op = "extract"
    /\ Len(fig.axes) >= 2
    /\ result.panels[2].panel = 2
    /\ result.panels[2].col = 2

\* C2: a call of get_coordmap_plotnine leaves the caller's plot (mapping,
\* layout table, scales, coordinates, facet, built or not) and figure as
\* they were before the call.
C2_CallerUnchanged == [][op' = "enrich" => (p' = p /\ fig' = fig)]_vars

C2_Witness ==
    /\ op = "enrich"
    /\ p.layout = None
    /\ result # None
    /\ Len(result.panels) >= 1
    /\ "panel_vars" \in DOMAIN result.panels[1]

\* C3 as claimed: get_coordmap of a figure with an empty axes list returns
\* None, and get_coordmap_plotnine returns None exactly when its call of
\* get_coordmap did.
C3_AbsentForEmptyFigure ==
    /\ (op = "extract" /\ fig.axes = <<>>) => result = None
    /\ op = "enrich" => (result = None <=> Extracted = None)

\* C3 amended: get_coordmap of a figure with an empty axes list returns a map
\* with no panels and the figure's dims, get_coordmap never returns None, and
\* get_coordmap_plotnine returns None exactly when its call of get_coordmap did.
C3_EmptyMapForEmptyFigure ==
    /\ (op = "extract" /\ fig.axes = <<>>) =>
          /\ result # None
          /\ result.panels = <<>>
          /\ result.dims = [width |-> fig.size_inches[1] * fig.dpi, height |-> Height]
    /\ op = "extract" => result # None
    /\ op = "enrich" => (result = None <=> Extracted = None)

C3_Witness ==
    /\ op = "extract"
    /\ fig.axes = <<>>
    /\ result # None
    /\ result.panels = <<>>

\* The final log value of one axis by the precedence of C4.
ExpectedLog(coord, key, trans, axis) ==
    IF key \in DOMAIN coord /\ HasBase(coord[key]) THEN Just(coord[key].base)
    ELSE IF HasBase(trans) THEN Just(trans.base)
    ELSE EngineLog(axis)

\* C4: in the map of get_coordmap_plotnine the log of each axis of each panel
\* is the base of the coordinate system's log transform if it has one, else
\* the base of the log transform of the panel's scale if it has one, else
\* the value get_coordmap computed from the rendering engine's axis.
C4_LogPrecedence ==
    op = "enrich" =>
        \A k \in 1..Len(fig.axes) :
            /\ result.panels[k].log.x =
                  ExpectedLog(p.coordinates, "trans_x", XTransOf(k), fig.axes[k].xaxis)
            /\ result.panels[k].log.y =
                  ExpectedLog(p.coordinates, "trans_y", YTransOf(k), fig.axes[k].yaxis)

\* A panel whose x axis is log base 10 in the engine, whose x scale is
\* log2_trans and whose coordinate system has a log5_trans for x.
C4_Witness ==
    /\ op = "enrich"
    /\ Len(fig.axes) >= 1
    /\ fig.axes[1].xaxis._scale.name = "log"
    /\ XTransOf(1) = log2_trans
    /\ "trans_x" \in DOMAIN p.coordinates
    /\ p.coordinates.trans_x = log5_trans
    /\ result.panels[1].log.x = Just(5)

\* C5: the pixel range of every panel has its origin in the upper left: with
\* (pl, b, pr, t) the pixels transData gives the raw limits (left, bottom,
\* right, top), range is (pl, pr, height - b, height - t), also on log axes.
C5_RangeTopLeftOrigin ==
    op = "extract" =>
        \A k \in 1..Len(fig.axes) :
            LET ax == fig.axes[k]
                px == transData_transform(fig, ax,
                          <<ax.xlim[1], ax.ylim[1], ax.xlim[2], ax.ylim[2]>>)
                r  == result.panels[k].range
            IN  /\ r.left = px[1]
                /\ r.right = px[3]
                /\ r.bottom = Height - px[2]
                /\ r.top = Height - px[4]
                /\ r.left = ax.position.x0 * fig.dpi
                /\ r.top = Height - ax.position.y1 * fig.dpi

C5_Witness ==
    /\ op = "extract"
    /\ Len(fig.axes) >= 1
    /\ fig.axes[1].yaxis._scale.name = "log"
    /\ result.panels[1].range.bottom = Height - fig.axes[1].position.y0 * fig.dpi
    /\ result.panels[1].range.bottom > result.panels[1].range.top

\* C6: in the map of get_coordmap, a log axis of base B gives log = B and
\* both domain edges of that axis the forward transform of the limits; an
\* axis that is not log gives log = None and the raw limits, whatever the
\* other axis is.
C6_EngineLogAxis ==
    op = "extract" =>
        \A k \in 1..Len(fig.axes) :
            LET ax  == fig.axes[k]
                pnl == result.panels[k]
                xs  == ax.xaxis._scale
                ys  == ax.yaxis._scale
            IN  /\ IF xs.name = "log"
                   THEN /\ pnl.log.x = Just(xs.base)
                        /\ pnl.domain.left = scale_transform(xs, ax.xlim[1])
                        /\ pnl.domain.right = scale_transform(xs, ax.xlim[2])
                        /\ pnl.domain.left = 1 /\ pnl.domain.right = 3
                   ELSE /\ pnl.log.x = None
                        /\ pnl.domain.left = ax.xlim[1]
                        /\ pnl.domain.right = ax.xlim[2]
                /\ IF ys.name = "log"
                   THEN /\ pnl.log.y = Just(ys.base)
                        /\ pnl.domain.bottom = scale_transform(ys, ax.ylim[1])
                        /\ pnl.domain.top = scale_transform(ys, ax.ylim[2])
                        /\ pnl.domain.bottom = 1 /\ pnl.domain.top = 3
                   ELSE /\ pnl.log.y = None
                        /\ pnl.domain.bottom = ax.ylim[1]
                        /\ pnl.domain.top = ax.ylim[2]

\* A panel with a linear x axis and a log y axis of base 2 and limits (2, 8).
C6_Witness ==
    /\ op = "extract"
    /\ Len(fig.axes) >= 1
    /\ fig.axes[1].xaxis._scale.name = "linear"
    /\ fig.axes[1].yaxis._scale.name = "log"
    /\ result.panels[1].log = [x |-> None, y |-> Just(2)]
    /\ result.panels[1].domain = [left |-> -2, right |-> 3, bottom |-> 1, top |-> 3]

\* C7: in the map of get_coordmap_plotnine the domain edges of an axis whose
\* scale has a reverse_trans are the negation of the edges get_coordmap
\* gives, and the edges of any other axis are the edges get_coordmap gives.
C7_ReverseNegatesOnce ==
    op = "enrich" =>
        \A k \in 1..Len(fig.axes) :
            LET d0 == Extracted.panels[k].domain
                d  == result.panels[k].domain
            IN  /\ IF XTransOf(k).type = "reverse_trans"
                   THEN d.left = -d0.left /\ d.right = -d0.right
                   ELSE d.left = d0.left /\ d.right = d0.right
                /\ IF YTransOf(k).type = "reverse_trans"
                   THEN d.top = -d0.top /\ d.bottom = -d0.bottom
                   ELSE d.top = d0.top /\ d.bottom = d0.bottom

\* A panel whose x and y scales both have a reverse_trans.
C7_Witness ==
    /\ op = "enrich"
    /\ Len(fig.axes) >= 1
    /\ XTransOf(1) = reverse_trans
    /\ YTransOf(1) = reverse_trans
    /\ fig.axes[1].xlim = <<-2, 3>>
    /\ result.panels[1].domain.left = 2
    /\ result.panels[1].domain.right = -3

\* C8: with a facet_grid that has column and row variables, every panel's
\* mapping has panelvar1 = the first column variable and panelvar2 = the
\* first row variable, and its panel_vars has the values of the two in the
\* layout row whose PANEL is the panel's number; with neither facet_grid nor
\* facet_wrap no panel has panelvar1, panelvar2 or panel_vars.
C8_FacetGridPanelVars ==
    op = "enrich" =>
        \A k \in 1..Len(fig.axes) :
            LET pnl == result.panels[k]
                fc  == p.facet
            IN  /\ (fc.type = "facet_grid" /\ Len(fc.cols) > 0 /\ Len(fc.rows) > 0) =>
                      /\ "panelvar1" \in DOMAIN pnl.mapping
                      /\ "panelvar2" \in DOMAIN pnl.mapping
                      /\ pnl.mapping["panelvar1"] = fc.cols[1]
                      /\ pnl.mapping["panelvar2"] = fc.rows[1]
                      /\ "panel_vars" \in DOMAIN pnl
                      /\ DOMAIN pnl["panel_vars"] = {"panelvar1", "panelvar2"}
                      /\ pnl["panel_vars"]["panelvar1"].val = RowOfPanel(k)[fc.cols[1]].val
                      /\ pnl["panel_vars"]["panelvar2"].val = RowOfPanel(k)[fc.rows[1]].val
                      /\ pnl["panel_vars"]["panelvar1"].ty = "float"
                      /\ pnl["panel_vars"]["panelvar2"].ty = "float"
                /\ fc.type \notin {"facet_grid", "facet_wrap"} =>
                      /\ DOMAIN pnl.mapping = {"x", "y"}
                      /\ "panel_vars" \notin DOMAIN pnl

\* The second panel of a grid of cyl by am whose layout table lists the
\* panels in decreasing order.
C8_Witness ==
    /\ op = "enrich"
    /\ Len(fig.axes) >= 2
    /\ p.facet = [type |-> "facet_grid", cols |-> <<"cyl">>, rows |-> <<"am">>]
    /\ p.facet_layout[1]["PANEL"] = Len(fig.axes)
    /\ result.panels[2]["panel_vars"] =
          [panelvar1 |-> [ty |-> "float", val |-> 6],
           panelvar2 |-> [ty |-> "float", val |-> 0]]

\* The variable the plot's mapping gives a role, None when it gives none.
MappedVar(role) == IF role \in DOMAIN p.mapping THEN Just(p.mapping[role]) ELSE None

\* C9: the x and y of every panel's mapping are the plot's x and y variables
\* (None for a role that is not mapped), exchanged when the coordinate
\* system is coord_flip; every panel has the same mapping.
C9_MappingFlip ==
    op = "enrich" =>
        \A k \in 1..Len(fig.axes) :
            LET m == result.panels[k].mapping
            IN  /\ IF p.coordinates.type = "coord_flip"
                   THEN m.x = MappedVar("y") /\ m.y = MappedVar("x")
                   ELSE m.x = MappedVar("x") /\ m.y = MappedVar("y")
                /\ m = result.panels[1].mapping

\* A flipped plot that maps only y: x is reported mpg and y None.
C9_Witness ==
    /\ op = "enrich"
    /\ Len(fig.axes) >= 2
    /\ p.coordinates.type = "coord_flip"
    /\ p.mapping = [y |-> "mpg"]
    /\ result.panels[2].mapping.x = Just("mpg")
    /\ result.panels[2].mapping.y = None

\* C10: the map of get_coordmap_plotnine has the dims, the number and order
\* of panels, and for every panel the panel number, row, col and range of
\* the map of get_coordmap; the domain edges of an axis whose scale has no
\* reverse transform are those of get_coordmap, also under a log scale or a
\* log coordinate transform.
C10_EnrichKeepsGeometry ==
    op = "enrich" =>
        /\ result.dims = Extracted.dims
        /\ Len(result.panels) = Len(Extracted.panels)
        /\ \A k \in 1..Len(Extracted.panels) :
              LET e == Extracted.panels[k]
                  r == result.panels[k]
              IN  /\ r.panel = e.panel
                  /\ r.row = e.row
                  /\ r.col = e.col
                  /\ r.range = e.range
                  /\ XTransOf(k).type # "reverse_trans" =>
                        r.domain.left = e.domain.left /\ r.domain.right = e.domain.right
                  /\ YTransOf(k).type # "reverse_trans" =>
                        r.domain.top = e.domain.top /\ r.domain.bottom = e.domain.bottom
                  /\ DOMAIN r \subseteq DOMAIN e \cup {"panel_vars"}

\* A panel with a log scale for x and a log coordinate transform for y: the
\* log entries changed, the domain did not.
C10_Witness ==
    /\ op = "enrich"
    /\ Len(fig.axes) >= 2
    /\ XTransOf(2) = log2_trans
    /\ "trans_y" \in DOMAIN p.coordinates
    /\ p.coordinates.trans_y = log5_trans
    /\ result.panels[2].log # Extracted.panels[2].log
    /\ result.panels[2].domain = Extracted.panels[2].domain
    /\ result.panels[2].range = Extracted.panels[2].range

====
